---- MODULE Spec2Model ----
(***************************************************************************)
(* Model of src-tauri/src/main.rs: the Linux WebKitGTK compatibility       *)
(* toggles that main() resolves into the process environment before it     *)
(* starts the tauri runtime.                                               *)
(*                                                                         *)
(* The process environment is a partial function from keys to values: a    *)
(* key is present exactly when it is in the function's domain.             *)
(***************************************************************************)
EXTENDS Integers, Sequences, FiniteSets, TLC

\* ---------------------------------------------------------------- bounds
\* Number of distinct pre-existing values an environment key may carry.
NumValues == 3
\* Number of times the resolver block is applied in SpecTwice.
MaxPasses == 2

\* ------------------------------------------------------------- the keys
WEBKIT_DISABLE_DMABUF_RENDERER == "WEBKIT_DISABLE_DMABUF_RENDERER"
P3DM_WEBKIT_NO_COMPOSITING == "P3DM_WEBKIT_NO_COMPOSITING"
WEBKIT_DISABLE_COMPOSITING_MODE == "WEBKIT_DISABLE_COMPOSITING_MODE"
P3DM_SOFTWARE_GL == "P3DM_SOFTWARE_GL"
LIBGL_ALWAYS_SOFTWARE == "LIBGL_ALWAYS_SOFTWARE"
\* A key main() never names, standing for the rest of the environment.
PATH == "PATH"

CompatKeys ==
  {WEBKIT_DISABLE_DMABUF_RENDERER, WEBKIT_DISABLE_COMPOSITING_MODE, LIBGL_ALWAYS_SOFTWARE}

TriggerKeys ==
  {P3DM_WEBKIT_NO_COMPOSITING, P3DM_SOFTWARE_GL}

Keys ==
  CompatKeys \cup TriggerKeys \cup {PATH}

\* Values an inherited variable may have; the first NumValues are used.
ValueUniverse ==
  <<"0", "", "1", "x", "true">>

Values ==
  {ValueUniverse[i] : i \in 1..NumValues}

\* All environments over Keys: every subset of keys present, any values.
Environments ==
  UNION {[S -> Values] : S \in SUBSET Keys}

\* cfg!(target_os = ...) values the binary may be built for.
TargetOS ==
  {"linux", "macos", "windows"}

\* ------------------------------------------------------ std::env helpers
\* std::env::var_os(k): Option<OsString>, as a sequence of length 0 or 1.
var_os(e, k) ==
  IF k \in DOMAIN e THEN <<e[k]>> ELSE <<>>

is_none(o) ==
  o = <<>>

is_some(o) ==
  o # <<>>

\* std::env::set_var(k, v): inserts or replaces.
set_var(e, k, v) ==
  [x \in (DOMAIN e) \cup {k} |-> IF x = k THEN v ELSE e[x]]

\* #[cfg(target_os = "linux")]
cfg_linux_NotWindows(os) ==
  os # "windows"

cfg_linux(os) ==
  os = "linux"

\* ------------------------------------------------- the three conditions
DmabufCond_Always(e) ==
  TRUE

DmabufCond_WrongKey(e) ==
  is_none(var_os(e, WEBKIT_DISABLE_COMPOSITING_MODE))

\* line 13
DmabufCond(e) ==
  is_none(var_os(e, WEBKIT_DISABLE_DMABUF_RENDERER))

CompositingCond_NoTrigger(e) ==
  is_none(var_os(e, WEBKIT_DISABLE_COMPOSITING_MODE))

CompositingCond_NeedsDmabuf(e) ==
  /\ is_some(var_os(e, P3DM_WEBKIT_NO_COMPOSITING))
  /\ is_some(var_os(e, WEBKIT_DISABLE_DMABUF_RENDERER))
  /\ is_none(var_os(e, WEBKIT_DISABLE_COMPOSITING_MODE))

\* lines 18-19
CompositingCond(e) ==
  /\ is_some(var_os(e, P3DM_WEBKIT_NO_COMPOSITING))
  /\ is_none(var_os(e, WEBKIT_DISABLE_COMPOSITING_MODE))

SoftwareGlCond_WrongTrigger(e) ==
  /\ is_some(var_os(e, P3DM_WEBKIT_NO_COMPOSITING))
  /\ is_none(var_os(e, LIBGL_ALWAYS_SOFTWARE))

SoftwareGlCond_ByValue(e) ==
  /\ var_os(e, P3DM_SOFTWARE_GL) = <<"1">>
  /\ is_none(var_os(e, LIBGL_ALWAYS_SOFTWARE))

SoftwareGlCond_TriggerOnly(e) ==
  is_some(var_os(e, P3DM_SOFTWARE_GL))

\* line 25
SoftwareGlCond(e) ==
  /\ is_some(var_os(e, P3DM_SOFTWARE_GL))
  /\ is_none(var_os(e, LIBGL_ALWAYS_SOFTWARE))

\* The keys each condition reads, in evaluation order (&& short-circuits).
DmabufReads(e) ==
  <<WEBKIT_DISABLE_DMABUF_RENDERER>>

CompositingReads(e) ==
  IF is_some(var_os(e, P3DM_WEBKIT_NO_COMPOSITING))
    THEN <<P3DM_WEBKIT_NO_COMPOSITING, WEBKIT_DISABLE_COMPOSITING_MODE>>
    ELSE <<P3DM_WEBKIT_NO_COMPOSITING>>

SoftwareGlReads(e) ==
  IF is_some(var_os(e, P3DM_SOFTWARE_GL))
    THEN <<P3DM_SOFTWARE_GL, LIBGL_ALWAYS_SOFTWARE>>
    ELSE <<P3DM_SOFTWARE_GL>>

\* The block of lines 11-28 as a function of the environment, in code order.
ApplyDmabuf(e) ==
  IF DmabufCond(e) THEN set_var(e, WEBKIT_DISABLE_DMABUF_RENDERER, "1") ELSE e

ApplyCompositing(e) ==
  IF CompositingCond(e) THEN set_var(e, WEBKIT_DISABLE_COMPOSITING_MODE, "1") ELSE e

ApplySoftwareGl(e) ==
  IF SoftwareGlCond(e) THEN set_var(e, LIBGL_ALWAYS_SOFTWARE, "1") ELSE e

resolve(os, e) ==
  IF cfg_linux(os) THEN ApplySoftwareGl(ApplyCompositing(ApplyDmabuf(e))) ELSE e

\* ----------------------------------------------------------------- state
VARIABLES
  target_os,   \* the platform the binary was compiled for
  env,         \* the process environment
  pc,          \* "NotResolved" | "Resolved" | "RuntimeStarted"
  order,       \* the order in which the three if-statements are executed
  idx,         \* position in order of the next statement to execute
  pass,        \* number of the current application of the block
  env0,        \* history: the environment inherited at process start
  results,     \* history: the environment at the end of each earlier pass
  reads,       \* history: keys passed to var_os, in order
  writes,      \* history: set_var calls, in order
  runtimeEnv   \* the environment the runtime saw when it started (0 or 1)

vars ==
  <<target_os, env, pc, order, idx, pass, env0, results, reads, writes, runtimeEnv>>

\* The statement order of lines 13, 18, 25.
CodeOrder ==
  <<"dmabuf", "compositing", "software_gl">>

Orders ==
  {o \in [1..3 -> {"dmabuf", "compositing", "software_gl"}] :
     \A i, j \in 1..3 : i # j => o[i] # o[j]}

InitCommon ==
  /\ target_os \in TargetOS
  /\ env \in Environments
  /\ env0 = env
  /\ pc = "NotResolved"
  /\ idx = 1
  /\ pass = 1
  /\ results = <<>>
  /\ reads = <<>>
  /\ writes = <<>>
  /\ runtimeEnv = <<>>

Init ==
  /\ InitCommon
  /\ order = CodeOrder

InitOrder ==
  /\ InitCommon
  /\ order \in Orders

\* Control moves to the next statement, or out of the block after the last.
Advance ==
  /\ idx' = idx + 1
  /\ pc' = IF idx = 3 THEN "Resolved" ELSE "NotResolved"
  /\ UNCHANGED <<target_os, order, pass, env0, results, runtimeEnv>>

AtStep(name) ==
  /\ cfg_linux(target_os)
  /\ pc = "NotResolved"
  /\ idx \in 1..3
  /\ order[idx] = name

WriteRec(k, v) ==
  [pass |-> pass, key |-> k, value |-> v]

\* lines 13-15
DmabufStep ==
  /\ AtStep("dmabuf")
  /\ reads' = reads \o DmabufReads(env)
  /\ IF DmabufCond(env)
       THEN /\ env' = set_var(env, WEBKIT_DISABLE_DMABUF_RENDERER, "1")
            /\ writes' = Append(writes, WriteRec(WEBKIT_DISABLE_DMABUF_RENDERER, "1"))
       ELSE UNCHANGED <<env, writes>>
  /\ Advance

CompositingStep_WritesTrigger ==
  /\ AtStep("compositing")
  /\ reads' = reads \o CompositingReads(env)
  /\ IF CompositingCond(env)
       THEN /\ env' = set_var(env, P3DM_WEBKIT_NO_COMPOSITING, "1")
            /\ writes' = Append(writes, WriteRec(P3DM_WEBKIT_NO_COMPOSITING, "1"))
       ELSE UNCHANGED <<env, writes>>
  /\ Advance

\* lines 18-22
CompositingStep ==
  /\ AtStep("compositing")
  /\ reads' = reads \o CompositingReads(env)
  /\ IF CompositingCond(env)
       THEN /\ env' = set_var(env, WEBKIT_DISABLE_COMPOSITING_MODE, "1")
            /\ writes' = Append(writes, WriteRec(WEBKIT_DISABLE_COMPOSITING_MODE, "1"))
       ELSE UNCHANGED <<env, writes>>
  /\ Advance

\* lines 25-27
SoftwareGlStep ==
  /\ AtStep("software_gl")
  /\ reads' = reads \o SoftwareGlReads(env)
  /\ IF SoftwareGlCond(env)
       THEN /\ env' = set_var(env, LIBGL_ALWAYS_SOFTWARE, "1")
            /\ writes' = Append(writes, WriteRec(LIBGL_ALWAYS_SOFTWARE, "1"))
       ELSE UNCHANGED <<env, writes>>
  /\ Advance

\* On other targets the cfg attribute removes the block: main() goes
\* straight to the builder.
SkipBlock ==
  /\ ~cfg_linux(target_os)
  /\ pc = "NotResolved"
  /\ pc' = "Resolved"
  /\ UNCHANGED <<target_os, env, order, idx, pass, env0, results, reads, writes, runtimeEnv>>

RunRuntime_Early ==
  /\ pc \in {"NotResolved", "Resolved"}
  /\ pc' = "RuntimeStarted"
  /\ runtimeEnv' = <<env>>
  /\ UNCHANGED <<target_os, env, order, idx, pass, env0, results, reads, writes>>

\* lines 30-32: the runtime starts and reads the environment as it is now.
RunRuntime ==
  /\ pc = "Resolved"
  /\ pc' = "RuntimeStarted"
  /\ runtimeEnv' = <<env>>
  /\ UNCHANGED <<target_os, env, order, idx, pass, env0, results, reads, writes>>

\* The block applied once more to the environment it produced.
SecondPass ==
  /\ pc = "Resolved"
  /\ pass < MaxPasses
  /\ pass' = pass + 1
  /\ results' = Append(results, env)
  /\ idx' = 1
  /\ pc' = "NotResolved"
  /\ UNCHANGED <<target_os, env, order, env0, reads, writes, runtimeEnv>>

Next ==
  \/ DmabufStep
  \/ CompositingStep
  \/ SoftwareGlStep
  \/ SkipBlock
  \/ RunRuntime

NextTwice ==
  \/ Next
  \/ SecondPass

\* main() as written.
Spec ==
  Init /\ [][Next]_vars

\* The three statements in any of their six orders.
SpecOrder ==
  InitOrder /\ [][Next]_vars

\* The block applied up to MaxPasses times before the runtime starts.
SpecTwice ==
  Init /\ [][NextTwice]_vars

\* ------------------------------------------------------------ vocabulary
Linux ==
  target_os = "linux"

Done ==
  pc \in {"Resolved", "RuntimeStarted"}

Present(e, k) ==
  k \in DOMAIN e

WrittenKeys ==
  {writes[i].key : i \in 1..Len(writes)}

TypeOK ==
  /\ target_os \in TargetOS
  /\ env \in Environments
  /\ env0 \in Environments
  /\ pc \in {"NotResolved", "Resolved", "RuntimeStarted"}
  /\ order \in Orders
  /\ idx \in 1..4
  /\ pass \in 1..MaxPasses

Count(seq, k) ==
  Cardinality({i \in 1..Len(seq) : seq[i] = k})

\* ---------------------------------------------------------------- claims

\* C1: on Linux, a compatibility key that the process inherited with some
\* value keeps exactly that value in every state of the pass and after it;
\* no step changes a present value or removes a key, and a write only ever
\* goes to a key that was absent.
C1_PresentKeysPreserved ==
  /\ [](Linux =>
         /\ \A k \in CompatKeys :
              Present(env0, k) => Present(env, k) /\ env[k] = env0[k]
         /\ \A k \in WrittenKeys : ~Present(env0, k))
  /\ [][Linux =>
         \A k \in Keys : Present(env, k) => Present(env', k) /\ env'[k] = env[k]]_vars

C1_Witness ==
  /\ Linux
  /\ pc = "Resolved"
  /\ Present(env0, P3DM_WEBKIT_NO_COMPOSITING)
  /\ Present(env0, P3DM_SOFTWARE_GL)
  /\ var_os(env0, WEBKIT_DISABLE_DMABUF_RENDERER) = <<"0">>
  /\ var_os(env0, WEBKIT_DISABLE_COMPOSITING_MODE) = <<"">>
  /\ var_os(env0, LIBGL_ALWAYS_SOFTWARE) = <<"0">>
  /\ env = env0

\* C2: on a target other than Linux, main() reads no environment variable and
\* writes none, and the environment stays identical to the inherited one.
C2_NonLinuxNoOp ==
  ~Linux => reads = <<>> /\ writes = <<>> /\ env = env0

C2_Witness ==
  /\ ~Linux
  /\ pc = "RuntimeStarted"
  /\ DOMAIN env0 = TriggerKeys
  /\ env = env0

\* C3: on Linux, when WEBKIT_DISABLE_DMABUF_RENDERER was absent at start it
\* is "1" once the block is done, whatever the other keys are; from the empty
\* environment it is the only key set.
C3_DmabufDefault ==
  (Linux /\ Done) =>
    /\ ~Present(env0, WEBKIT_DISABLE_DMABUF_RENDERER) =>
         var_os(env, WEBKIT_DISABLE_DMABUF_RENDERER) = <<"1">>
    /\ DOMAIN env0 = {} =>
         env = [k \in {WEBKIT_DISABLE_DMABUF_RENDERER} |-> "1"]

C3_Witness ==
  /\ Linux
  /\ pc = "Resolved"
  /\ DOMAIN env0 = {}
  /\ DOMAIN env = {WEBKIT_DISABLE_DMABUF_RENDERER}

\* C4: on Linux, WEBKIT_DISABLE_COMPOSITING_MODE is written (to "1") exactly
\* when P3DM_WEBKIT_NO_COMPOSITING was present and the flag absent at start;
\* otherwise the flag is as it was.  With only the trigger set, the result is
\* DMABUF = "1", COMPOSITING = "1" and LIBGL_ALWAYS_SOFTWARE absent.
C4_CompositingIff ==
  (Linux /\ Done) =>
    LET cond == /\ Present(env0, P3DM_WEBKIT_NO_COMPOSITING)
                /\ ~Present(env0, WEBKIT_DISABLE_COMPOSITING_MODE)
    IN /\ (WEBKIT_DISABLE_COMPOSITING_MODE \in WrittenKeys) <=> cond
       /\ cond => var_os(env, WEBKIT_DISABLE_COMPOSITING_MODE) = <<"1">>
       /\ ~cond => var_os(env, WEBKIT_DISABLE_COMPOSITING_MODE)
                     = var_os(env0, WEBKIT_DISABLE_COMPOSITING_MODE)
       /\ DOMAIN env0 = {P3DM_WEBKIT_NO_COMPOSITING} =>
            /\ var_os(env, WEBKIT_DISABLE_DMABUF_RENDERER) = <<"1">>
            /\ var_os(env, WEBKIT_DISABLE_COMPOSITING_MODE) = <<"1">>
            /\ ~Present(env, LIBGL_ALWAYS_SOFTWARE)

C4_Witness ==
  /\ Linux
  /\ pc = "Resolved"
  /\ DOMAIN env0 = {P3DM_WEBKIT_NO_COMPOSITING}
  /\ WEBKIT_DISABLE_COMPOSITING_MODE \in WrittenKeys

\* C5: on Linux, LIBGL_ALWAYS_SOFTWARE is written (to "1") exactly when
\* P3DM_SOFTWARE_GL was present and the flag absent at start; otherwise it is
\* as it was, whatever WEBKIT_DISABLE_DMABUF_RENDERER is: with DMABUF = "0"
\* and the trigger present the result is DMABUF = "0", LIBGL = "1".
C5_SoftwareGlIff ==
  (Linux /\ Done) =>
    LET cond == /\ Present(env0, P3DM_SOFTWARE_GL)
                /\ ~Present(env0, LIBGL_ALWAYS_SOFTWARE)
    IN /\ (LIBGL_ALWAYS_SOFTWARE \in WrittenKeys) <=> cond
       /\ cond => var_os(env, LIBGL_ALWAYS_SOFTWARE) = <<"1">>
       /\ ~cond => var_os(env, LIBGL_ALWAYS_SOFTWARE)
                     = var_os(env0, LIBGL_ALWAYS_SOFTWARE)
       /\ (cond /\ var_os(env0, WEBKIT_DISABLE_DMABUF_RENDERER) = <<"0">>) =>
            /\ var_os(env, WEBKIT_DISABLE_DMABUF_RENDERER) = <<"0">>
            /\ var_os(env, LIBGL_ALWAYS_SOFTWARE) = <<"1">>

C5_Witness ==
  /\ Linux
  /\ pc = "Resolved"
  /\ DOMAIN env0 = {WEBKIT_DISABLE_DMABUF_RENDERER, P3DM_SOFTWARE_GL}
  /\ env0[WEBKIT_DISABLE_DMABUF_RENDERER] = "0"
  /\ WrittenKeys = {LIBGL_ALWAYS_SOFTWARE}

\* C6: on Linux, applying the block again to the environment it produced
\* changes nothing: during and after every later pass the environment equals
\* the result of the first pass and no set_var call is made.
C6_Idempotent ==
  (Linux /\ pass >= 2) =>
    /\ env = results[1]
    /\ \A i \in 1..Len(writes) : writes[i].pass = 1

C6_Witness ==
  /\ Linux
  /\ pass = 2
  /\ pc = "Resolved"
  /\ Len(writes) = 3
  /\ env # env0

\* C7: on every target, set_var is only called for the three compatibility
\* keys; the two triggers and every other key have the presence and value
\* they were inherited with.
C7_OnlyCompatKeysWritten ==
  /\ WrittenKeys \subseteq CompatKeys
  /\ \A k \in Keys \ CompatKeys : var_os(env, k) = var_os(env0, k)

C7_Witness ==
  /\ Linux
  /\ pc = "Resolved"
  /\ Len(writes) = 3
  /\ var_os(env0, P3DM_WEBKIT_NO_COMPOSITING) = <<"0">>
  /\ var_os(env0, P3DM_SOFTWARE_GL) = <<"">>
  /\ Present(env0, PATH)

\* C8: the runtime is started only from the Resolved state (on Linux, after
\* all three statements ran); what it sees is the fully resolved environment;
\* and once it is started the block makes no further write.
C8_ResolveBeforeRuntime ==
  /\ [][pc' = "RuntimeStarted" => pc \in {"Resolved", "RuntimeStarted"}]_vars
  /\ [][pc = "RuntimeStarted" => env' = env /\ writes' = writes]_vars
  /\ [](pc = "RuntimeStarted" =>
          /\ Linux => idx = 4
          /\ runtimeEnv = <<resolve(target_os, env0)>>
          /\ env = runtimeEnv[1])

C8_Witness ==
  /\ Linux
  /\ pc = "RuntimeStarted"
  /\ Len(writes) = 3
  /\ runtimeEnv = <<env>>

\* C9: on Linux, executing the three statements in any of the six orders
\* ends in the environment that the code's order produces, and no key is
\* read more than once (no statement reads a key another one tests or sets).
C9_OrderInsensitive ==
  (Linux /\ Done) =>
    /\ env = resolve(target_os, env0)
    /\ \A k \in Keys : Count(reads, k) <= 1

C9_Witness ==
  /\ Linux
  /\ pc = "Resolved"
  /\ order = <<"software_gl", "compositing", "dmabuf">>
  /\ Len(writes) = 3

\* C10: on Linux the triggers count by presence, not value: a trigger present
\* with any value (also "0" or "") and its flag absent gives the flag the
\* value "1"; and every value set_var is called with is "1".
C10_PresenceNotValue ==
  /\ \A i \in 1..Len(writes) : writes[i].value = "1"
  /\ (Linux /\ Done) =>
       \A v \in Values :
         /\ ( /\ var_os(env0, P3DM_WEBKIT_NO_COMPOSITING) = <<v>>
              /\ ~Present(env0, WEBKIT_DISABLE_COMPOSITING_MODE) )
            => var_os(env, WEBKIT_DISABLE_COMPOSITING_MODE) = <<"1">>
         /\ ( /\ var_os(env0, P3DM_SOFTWARE_GL) = <<v>>
              /\ ~Present(env0, LIBGL_ALWAYS_SOFTWARE) )
            => var_os(env, LIBGL_ALWAYS_SOFTWARE) = <<"1">>

C10_Witness ==
  /\ Linux
  /\ pc = "Resolved"
  /\ var_os(env0, P3DM_WEBKIT_NO_COMPOSITING) = <<"">>
  /\ var_os(env0, P3DM_SOFTWARE_GL) = <<"0">>
  /\ var_os(env, WEBKIT_DISABLE_COMPOSITING_MODE) = <<"1">>
  /\ var_os(env, LIBGL_ALWAYS_SOFTWARE) = <<"1">>
  /\ WrittenKeys = CompatKeys

====
